---- MODULE Spec2Model ----
(***************************************************************************)
(* A model of csim.c: a set-associative cache simulator that replays a     *)
(* memory trace and counts hits, misses and evictions.                     *)
(*                                                                         *)
(* The state is the program's globals (s, E, b, S, cache, hit_cnt,         *)
(* miss_cnt, evict_cnt, lru_count), the local of replay_trace that lives   *)
(* across loop iterations (addr), the position of main (pc), the printed   *)
(* summary and the inputs (trace_file, tracelen).  History variables       *)
(* (nrec, nexp, nacc, atime, ahit, seen, last and the reference LRU cache) *)
(* record what happened; no action reads them to decide what the program   *)
(* does.                                                                   *)
(*                                                                         *)
(* mem_addr_t is 64 bits wide.  Every address of the model is at most      *)
(* 2^MaxAddrBit, and tag << (s+b) never exceeds the address it was cut     *)
(* from, so no operation of access_data wraps and plain integers are       *)
(* exact.  Geometries with b < 0 or s + b < 0 shift by a negative count,   *)
(* which is undefined in C; the command lines of the model leave them out. *)
(***************************************************************************)
EXTENDS Integers, Sequences, FiniteSets, TLC

RECURSIVE Pow2(_)
Pow2(n) == IF n <= 0 THEN 1 ELSE 2 * Pow2(n - 1)

\* ---------------------------------------------------------------- bounds
MaxS == 2       \* largest -s argument tried
MaxE == 2       \* largest -E argument tried
MaxB == 1       \* largest -b argument tried
MaxAddrBit == 3 \* highest address bit a trace record sets
MaxTrace == 3   \* lines of the trace file
LruTrace == 5   \* lines of the trace file in SpecLRU

SVals == -1 .. MaxS
EVals == -1 .. MaxE
BVals == 0 .. MaxB
\* Addresses of trace records: 0 and the addresses with one bit set.
Addrs == {0} \cup {Pow2(k) : k \in 0 .. MaxAddrBit}
\* buf[1] of a trace line: a load, a store, a modify, or anything else
\* ("I" stands for an instruction-fetch line, whose buf[1] is a blank).
Kinds == {"L", "S", "M", "I"}
\* Nothing printed yet.
NoSummary == <<>>

VARIABLES
    s, E, b,            \* globals set by the command line
    trace_file,         \* "NULL" when -t was not given
    tracelen,           \* number of lines of the trace file
    S,                  \* number of sets, set by init_cache
    cache,              \* cache[set][line] = [valid, tag, lru]
    hit_cnt, miss_cnt, evict_cnt,
    lru_count,
    addr,               \* replay_trace: the address sscanf parsed last
    pc,                 \* position of main
    summary,            \* what print_summary printed
    nrec,               \* history: lines read from the trace
    nexp,               \* history: #L + #S + 2 * #M of the lines read
    nacc,               \* history: calls of access_data made
    atime,              \* history: atime[set][line] = nacc of the line's last access
    ahit,               \* history: ahit[set][line] = that last access was a hit
    seen,               \* history: seen[set] = the tags accessed in the set
    last,               \* history: outcome of the latest access_data call
    ref, ref_hit, ref_miss, ref_evict, ref_last   \* reference LRU cache

prog == <<s, E, b, trace_file, tracelen, S, cache, hit_cnt, miss_cnt, evict_cnt,
          lru_count, addr, pc, summary>>
hist == <<nrec, nexp, nacc, atime, ahit, seen, last, ref, ref_hit, ref_miss, ref_evict,
          ref_last>>
vars == <<prog, hist>>

\* ------------------------------------------------------------ arithmetic
\* x >> n and x << n on non-negative x, n >= 0
Shr(x, n) == x \div Pow2(n)
Shl(x, n) == x * Pow2(n)

\* x & y, bit by bit
RECURSIVE BitAnd(_, _)
BitAnd(x, y) ==
    IF x = 0 \/ y = 0 THEN 0
    ELSE (IF x % 2 = 1 /\ y % 2 = 1 THEN 1 ELSE 0) + 2 * BitAnd(x \div 2, y \div 2)

\* ----------------------------------------------------------- init_cache
\* S = 1; for (i = 0; i < s; i++) S *= 2;
RECURSIVE SetsLoop(_, _)
SetsLoop(i, acc) == IF i < s THEN SetsLoop(i + 1, acc * 2) ELSE acc

NumSets == SetsLoop(0, 1)

NewLine == [valid |-> 0, tag |-> 0, lru |-> 0]

NewCache(nsets) == [i \in 0 .. nsets - 1 |-> [j \in 0 .. E - 1 |-> NewLine]]

\* ---------------------------------------------------------- access_data
Tag(a) == Shr(a, s + b)

\* Mutant of CurrSet: the block-offset bits are not shifted out.
CurrSetNoShift(a) == a - Shl(Tag(a), s + b)

CurrSet(a) == Shr(a - Shl(Tag(a), s + b), b)

\* Mutant of HitScan: the valid bit is not tested.
RECURSIVE HitScanNoValid(_, _, _)
HitScanNoValid(set, tag, i) ==
    IF i >= E THEN E
    ELSE IF cache[set][i].tag = tag THEN i
    ELSE HitScanNoValid(set, tag, i + 1)

\* Mutant of HitScan: only the first line of the set is compared.
HitScanFirstOnly(set, tag, i) ==
    IF i = 0 /\ cache[set][0].tag = tag /\ cache[set][0].valid # 0 THEN 0 ELSE E

\* for (i = 0; i < E; i++) if (line i holds tag and is valid) -> i ; E when
\* the loop runs out
RECURSIVE HitScan(_, _, _)
HitScan(set, tag, i) ==
    IF i >= E THEN E
    ELSE IF cache[set][i].tag = tag /\ cache[set][i].valid # 0 THEN i
    ELSE HitScan(set, tag, i + 1)

\* Mutant of ColdScan: the scan for an invalid line runs from the last slot.
ColdScanFromEnd(set, i) ==
    LET free == {j \in i .. E - 1 : cache[set][j].valid = 0}
    IN  IF free = {} THEN E
        ELSE CHOOSE j \in free : \A m \in free : m <= j

\* Mutant of ColdScan: the test of the valid bit is inverted.
RECURSIVE ColdScanValid(_, _)
ColdScanValid(set, i) ==
    IF i >= E THEN E
    ELSE IF cache[set][i].valid # 0 THEN i
    ELSE ColdScanValid(set, i + 1)

\* for (i = 0; i < E; i++) if (!valid) -> i ; E when the loop runs out
RECURSIVE ColdScan(_, _)
ColdScan(set, i) ==
    IF i >= E THEN E
    ELSE IF cache[set][i].valid = 0 THEN i
    ELSE ColdScan(set, i + 1)

\* Mutant of EvictScan: <= for <, so the last of equal minima is taken.
RECURSIVE EvictScanLastMin(_, _, _)
EvictScanLastMin(set, i, line) ==
    IF i >= E THEN line
    ELSE EvictScanLastMin(set, i + 1,
                          IF cache[set][i].lru <= cache[set][line].lru
                          THEN i ELSE line)

\* line = 0; for (i = 0; i < E; i++) if (lru[i] < lru[line]) line = i;
RECURSIVE EvictScan(_, _, _)
EvictScan(set, i, line) ==
    IF i >= E THEN line
    ELSE EvictScan(set, i + 1,
                   IF cache[set][i].lru < cache[set][line].lru THEN i ELSE line)

\* The outcome of access_data(a) in the current state: which path it takes
\* and which line it writes.
Outcome(a) ==
    LET tag == Tag(a)
        currSet == CurrSet(a)
        h == HitScan(currSet, tag, 0)
        c == ColdScan(currSet, 0)
    IN  IF h < E THEN [res |-> "hit", set |-> currSet, line |-> h, tag |-> tag]
        ELSE IF c < E THEN [res |-> "miss", set |-> currSet, line |-> c, tag |-> tag]
        ELSE [res |-> "evict", set |-> currSet,
              line |-> EvictScan(currSet, 0, 0), tag |-> tag]

\* The reference cache: each set an exact LRU list of tags, oldest first.
RefPos(q, tag) ==
    IF \E k \in 1 .. Len(q) : q[k] = tag
    THEN CHOOSE k \in 1 .. Len(q) : q[k] = tag
    ELSE 0

RefRemove(q, k) == [n \in 1 .. Len(q) - 1 |-> IF n < k THEN q[n] ELSE q[n + 1]]

RefAccess(a) ==
    LET tag == Tag(a)
        set == CurrSet(a)
        q == ref[set]
        k == RefPos(q, tag)
    IN  IF k > 0
        THEN /\ ref' = [ref EXCEPT ![set] = Append(RefRemove(q, k), tag)]
             /\ ref_hit' = ref_hit + 1
             /\ ref_last' = "hit"
             /\ UNCHANGED <<ref_miss, ref_evict>>
        ELSE IF Len(q) < E
        THEN /\ ref' = [ref EXCEPT ![set] = Append(q, tag)]
             /\ ref_miss' = ref_miss + 1
             /\ ref_last' = "miss"
             /\ UNCHANGED <<ref_hit, ref_evict>>
        ELSE /\ ref' = [ref EXCEPT ![set] = Append(Tail(q), tag)]
             /\ ref_miss' = ref_miss + 1
             /\ ref_evict' = ref_evict + 1
             /\ ref_last' = "evict"
             /\ UNCHANGED ref_hit

\* History of one access_data call.
Record(a) ==
    LET o == Outcome(a)
    IN  /\ nacc' = nacc + 1
        /\ atime' = [atime EXCEPT ![o.set][o.line] = nacc + 1]
        /\ ahit' = [ahit EXCEPT ![o.set][o.line] = (o.res = "hit")]
        /\ seen' = [seen EXCEPT ![o.set] = @ \cup {o.tag}]
        /\ last' = o
        /\ RefAccess(a)

\* Mutant of AccessData: the hit path does not return and counts a miss too.
AccessDataHitFallsThrough(a) ==
    LET o == Outcome(a)
    IN  /\ CASE o.res = "hit" ->
                 /\ cache' = [cache EXCEPT ![o.set][o.line].lru = lru_count]
                 /\ hit_cnt' = hit_cnt + 1
                 /\ lru_count' = lru_count + 1
                 /\ miss_cnt' = miss_cnt + 1
                 /\ UNCHANGED evict_cnt
             [] o.res = "miss" ->
                 /\ miss_cnt' = miss_cnt + 1
                 /\ cache' = [cache EXCEPT ![o.set][o.line] =
                                  [valid |-> 1, tag |-> o.tag, lru |-> lru_count]]
                 /\ UNCHANGED <<hit_cnt, evict_cnt, lru_count>>
             [] o.res = "evict" ->
                 /\ miss_cnt' = miss_cnt + 1
                 /\ evict_cnt' = evict_cnt + 1
                 /\ cache' = [cache EXCEPT ![o.set][o.line] =
                                  [@ EXCEPT !.lru = lru_count, !.tag = o.tag]]
                 /\ UNCHANGED <<hit_cnt, lru_count>>
        /\ Record(a)

\* Mutant of AccessData: the eviction clears the valid flag of the line.
AccessDataEvictInvalidates(a) ==
    LET o == Outcome(a)
    IN  /\ CASE o.res = "hit" ->
                 /\ cache' = [cache EXCEPT ![o.set][o.line].lru = lru_count]
                 /\ hit_cnt' = hit_cnt + 1
                 /\ lru_count' = lru_count + 1
                 /\ UNCHANGED <<miss_cnt, evict_cnt>>
             [] o.res = "miss" ->
                 /\ miss_cnt' = miss_cnt + 1
                 /\ cache' = [cache EXCEPT ![o.set][o.line] =
                                  [valid |-> 1, tag |-> o.tag, lru |-> lru_count]]
                 /\ UNCHANGED <<hit_cnt, evict_cnt, lru_count>>
             [] o.res = "evict" ->
                 /\ miss_cnt' = miss_cnt + 1
                 /\ evict_cnt' = evict_cnt + 1
                 /\ cache' = [cache EXCEPT ![o.set][o.line] =
                                  [valid |-> 0, tag |-> o.tag, lru |-> lru_count]]
                 /\ UNCHANGED <<hit_cnt, lru_count>>
        /\ Record(a)

\* Mutant of AccessData: the cold fill does not set the valid flag.
AccessDataFillNoValid(a) ==
    LET o == Outcome(a)
    IN  /\ CASE o.res = "hit" ->
                 /\ cache' = [cache EXCEPT ![o.set][o.line].lru = lru_count]
                 /\ hit_cnt' = hit_cnt + 1
                 /\ lru_count' = lru_count + 1
                 /\ UNCHANGED <<miss_cnt, evict_cnt>>
             [] o.res = "miss" ->
                 /\ miss_cnt' = miss_cnt + 1
                 /\ cache' = [cache EXCEPT ![o.set][o.line] =
                                  [valid |-> 0, tag |-> o.tag, lru |-> lru_count]]
                 /\ UNCHANGED <<hit_cnt, evict_cnt, lru_count>>
             [] o.res = "evict" ->
                 /\ miss_cnt' = miss_cnt + 1
                 /\ evict_cnt' = evict_cnt + 1
                 /\ cache' = [cache EXCEPT ![o.set][o.line] =
                                  [@ EXCEPT !.lru = lru_count, !.tag = o.tag]]
                 /\ UNCHANGED <<hit_cnt, lru_count>>
        /\ Record(a)

\* Mutant of AccessData: a hit stamps every line of the set.
AccessDataHitStampsSet(a) ==
    LET o == Outcome(a)
    IN  /\ CASE o.res = "hit" ->
                 /\ cache' = [cache EXCEPT ![o.set] =
                                  [j \in 0 .. E - 1 |-> [@[j] EXCEPT !.lru = lru_count]]]
                 /\ hit_cnt' = hit_cnt + 1
                 /\ lru_count' = lru_count + 1
                 /\ UNCHANGED <<miss_cnt, evict_cnt>>
             [] o.res = "miss" ->
                 /\ miss_cnt' = miss_cnt + 1
                 /\ cache' = [cache EXCEPT ![o.set][o.line] =
                                  [valid |-> 1, tag |-> o.tag, lru |-> lru_count]]
                 /\ UNCHANGED <<hit_cnt, evict_cnt, lru_count>>
             [] o.res = "evict" ->
                 /\ miss_cnt' = miss_cnt + 1
                 /\ evict_cnt' = evict_cnt + 1
                 /\ cache' = [cache EXCEPT ![o.set][o.line] =
                                  [@ EXCEPT !.lru = lru_count, !.tag = o.tag]]
                 /\ UNCHANGED <<hit_cnt, lru_count>>
        /\ Record(a)

AccessData(a) ==
    LET o == Outcome(a)
    IN  /\ CASE o.res = "hit" ->
                 /\ cache' = [cache EXCEPT ![o.set][o.line].lru = lru_count]
                 /\ hit_cnt' = hit_cnt + 1
                 /\ lru_count' = lru_count + 1
                 /\ UNCHANGED <<miss_cnt, evict_cnt>>
             [] o.res = "miss" ->
                 /\ miss_cnt' = miss_cnt + 1
                 /\ cache' = [cache EXCEPT ![o.set][o.line] =
                                  [valid |-> 1, tag |-> o.tag, lru |-> lru_count]]
                 /\ UNCHANGED <<hit_cnt, evict_cnt, lru_count>>
             [] o.res = "evict" ->
                 /\ miss_cnt' = miss_cnt + 1
                 /\ evict_cnt' = evict_cnt + 1
                 /\ cache' = [cache EXCEPT ![o.set][o.line] =
                                  [@ EXCEPT !.lru = lru_count, !.tag = o.tag]]
                 /\ UNCHANGED <<hit_cnt, lru_count>>
        /\ Record(a)

\* ------------------------------------------------------------------ main
\* The globals' initialisers and the history before the first step.
InitGlobals ==
    /\ S = 0
    /\ cache = <<>>
    /\ hit_cnt = 0
    /\ miss_cnt = 0
    /\ evict_cnt = 0
    /\ lru_count = 0
    /\ addr = 0
    /\ pc = "main"
    /\ summary = NoSummary
    /\ nrec = 0
    /\ nexp = 0
    /\ nacc = 0
    /\ atime = <<>>
    /\ ahit = <<>>
    /\ seen = <<>>
    /\ last = [res |-> "none", set |-> 0, line |-> 0, tag |-> 0]
    /\ ref = <<>>
    /\ ref_hit = 0
    /\ ref_miss = 0
    /\ ref_evict = 0
    /\ ref_last = "none"

\* Any command line and any trace file within the bounds.
Init ==
    /\ s \in SVals
    /\ E \in EVals
    /\ b \in BVals
    /\ trace_file \in {"NULL", "trace"}
    /\ tracelen \in 0 .. MaxTrace
    /\ InitGlobals

\* The command line -s 1 -E 2 -b 1 -t <trace> with a longer trace file: two
\* sets of two lines each, the smallest cache in which the choice of the
\* victim matters.
InitLRU ==
    /\ s = 1
    /\ E = 2
    /\ b = 1
    /\ trace_file = "trace"
    /\ tracelen = LruTrace
    /\ InitGlobals

\* if (s == 0 || E == 0 || b == 0 || trace_file == NULL) { usage; exit(1); }
MissingArg == s = 0 \/ E = 0 \/ b = 0 \/ trace_file = "NULL"

CheckArgs ==
    /\ pc = "main"
    /\ pc' = IF MissingArg THEN "exit1" ELSE "init"
    /\ UNCHANGED <<s, E, b, trace_file, tracelen, S, cache, hit_cnt,
                   miss_cnt, evict_cnt,
                   lru_count, addr, summary>>
    /\ UNCHANGED hist

\* init_cache with every malloc succeeding.  A negative E asks malloc for
\* sizeof(cache_line_t) * E converted to size_t, which no malloc grants.
InitCache ==
    /\ pc = "init"
    /\ E >= 0
    /\ S' = NumSets
    /\ cache' = NewCache(NumSets)
    /\ atime' = [i \in 0 .. NumSets - 1 |-> [j \in 0 .. E - 1 |-> 0]]
    /\ ahit' = [i \in 0 .. NumSets - 1 |-> [j \in 0 .. E - 1 |-> FALSE]]
    /\ seen' = [i \in 0 .. NumSets - 1 |-> {}]
    /\ ref' = [i \in 0 .. NumSets - 1 |-> <<>>]
    /\ pc' = "open"
    /\ UNCHANGED <<s, E, b, trace_file, tracelen, hit_cnt, miss_cnt,
                   evict_cnt,
                   lru_count, addr, summary>>
    /\ UNCHANGED <<nrec, nexp, nacc, last, ref_hit, ref_miss, ref_evict,
                   ref_last>>

\* init_cache with a malloc returning NULL: exit(0)
InitCacheNoMemory ==
    /\ pc = "init"
    /\ S' = NumSets
    /\ pc' = "exit0"
    /\ UNCHANGED <<s, E, b, trace_file, tracelen, cache, hit_cnt, miss_cnt,
                   evict_cnt,
                   lru_count, addr, summary>>
    /\ UNCHANGED hist

\* replay_trace: fopen
OpenTrace ==
    /\ pc = "open"
    /\ pc' \in {"replay", "exit1"}
    /\ UNCHANGED <<s, E, b, trace_file, tracelen, S, cache, hit_cnt,
                   miss_cnt, evict_cnt,
                   lru_count, addr, summary>>
    /\ UNCHANGED hist

\* replay_trace: one line whose buf[1] is S, L or M; for M, the first of
\* its two access_data calls.  sscanf stores the address a of the line, or
\* leaves addr as it was when the field does not convert (a = addr).
ReplayAccess(kind, a) ==
    /\ pc = "replay"
    /\ nrec < tracelen
    /\ kind \in {"S", "L", "M"}
    /\ addr' = a
    /\ AccessData(addr')
    /\ pc' = IF kind = "M" THEN "modify" ELSE "replay"
    /\ nrec' = nrec + 1
    /\ nexp' = nexp + (IF kind = "M" THEN 2 ELSE 1)
    /\ UNCHANGED <<s, E, b, trace_file, tracelen, S, summary>>

\* Mutant of ReplayModify: an M line makes one access only.
ReplayModifyNoAccess ==
    /\ pc = "modify"
    /\ pc' = "replay"
    /\ UNCHANGED <<s, E, b, trace_file, tracelen, S, cache, hit_cnt,
                   miss_cnt, evict_cnt,
                   lru_count, addr, summary>>
    /\ UNCHANGED hist

\* replay_trace: the second access_data call of an M line
ReplayModify ==
    /\ pc = "modify"
    /\ AccessData(addr)
    /\ pc' = "replay"
    /\ UNCHANGED <<s, E, b, trace_file, tracelen, S, addr, summary, nrec,
                   nexp>>

\* Mutant of ReplayIgnore: a line of any other kind is replayed as a load
\* of the address parsed last.
ReplayIgnoreAsLoad(kind) ==
    /\ pc = "replay"
    /\ nrec < tracelen
    /\ kind \notin {"S", "L", "M"}
    /\ AccessData(addr)
    /\ nrec' = nrec + 1
    /\ UNCHANGED <<s, E, b, trace_file, tracelen, S, addr, pc, summary, nexp>>

\* replay_trace: a line whose buf[1] is none of S, L, M
ReplayIgnore(kind) ==
    /\ pc = "replay"
    /\ nrec < tracelen
    /\ kind \notin {"S", "L", "M"}
    /\ nrec' = nrec + 1
    /\ UNCHANGED <<s, E, b, trace_file, tracelen, S, cache, hit_cnt,
                   miss_cnt, evict_cnt,
                   lru_count, addr, pc, summary>>
    /\ UNCHANGED <<nexp, nacc, atime, ahit, seen, last, ref, ref_hit,
                   ref_miss,
                   ref_evict, ref_last>>

\* free_cache: every set and the array of sets are freed, cache = NULL
FreeCache == <<>>

\* print_summary(hits, misses, evictions)
PrintSummary(hits, misses, evictions) == <<hits, misses, evictions>>

\* replay_trace: fgets returns NULL at the end of the file, fclose, return;
\* then main frees the
\* cache, prints the summary of the three counters and returns 0.
EndOfTrace ==
    /\ pc = "replay"
    /\ nrec = tracelen
    /\ cache' = FreeCache
    /\ summary' = PrintSummary(hit_cnt, miss_cnt, evict_cnt)
    /\ pc' = "done"
    /\ UNCHANGED <<s, E, b, trace_file, tracelen, S, hit_cnt, miss_cnt,
                   evict_cnt,
                   lru_count, addr>>
    /\ UNCHANGED hist

Next ==
    \/ CheckArgs
    \/ InitCache
    \/ InitCacheNoMemory
    \/ OpenTrace
    \/ \E kind \in Kinds, a \in Addrs \cup {addr} : ReplayAccess(kind, a)
    \/ ReplayModify
    \/ \E kind \in Kinds : ReplayIgnore(kind)
    \/ EndOfTrace

Spec == Init /\ [][Next]_vars

SpecLRU == InitLRU /\ [][Next]_vars

\* ---------------------------------------------------------------- claims
\* The geometries the contract covers.
ValidGeom == s >= 1 /\ E >= 1 /\ b >= 1

\* The cache exists and replay is under way.
Replaying == pc \in {"replay", "modify"}

\* Some line of the set address a maps to is valid and holds a's tag.
TagResident(a) ==
    \E i \in 0 .. E - 1 :
        cache[CurrSet(a)][i].valid # 0 /\ cache[CurrSet(a)][i].tag = Tag(a)

\* Every line of the set is valid.
SetFull(set) == \A i \in 0 .. E - 1 : cache[set][i].valid # 0

\* This step is one call of access_data, on address addr'.
AccessStep == nacc' = nacc + 1

\* C1: for every valid geometry and every sequence of accesses, the outcome
\* of each access and the three counters equal those of a reference cache
\* that keeps every set in exact least-recently-used order.
C1_MatchesReferenceLRU ==
    ValidGeom =>
        /\ last.res = ref_last
        /\ hit_cnt = ref_hit
        /\ miss_cnt = ref_miss
        /\ evict_cnt = ref_evict

\* C2: whenever access_data evicts, the line whose tag it overwrites is the
\* line of the set whose latest access (hit or fill) is the oldest.
C2_EvictsLeastRecent ==
    [][(ValidGeom /\ Replaying /\ evict_cnt' = evict_cnt + 1) =>
          \A k \in 0 .. S - 1 : \A i \in 0 .. E - 1 :
              cache'[k][i].tag # cache[k][i].tag =>
                  \A j \in 0 .. E - 1 : atime[k][i] <= atime[k][j]]_vars

\* C3: an access to a resident tag is a hit, and with E >= 2 a miss in a
\* full set never evicts the line that the set's latest access hit (every
\* other line of the set was then accessed earlier).
C3_HitProtectsLine ==
    [][(ValidGeom /\ Replaying /\ AccessStep) =>
          /\ TagResident(addr') =>
                 /\ hit_cnt' = hit_cnt + 1
                 /\ miss_cnt' = miss_cnt
                 /\ evict_cnt' = evict_cnt
          /\ (E >= 2 /\ evict_cnt' = evict_cnt + 1) =>
                 \A k \in 0 .. S - 1 : \A i \in 0 .. E - 1 :
                     cache'[k][i].tag # cache[k][i].tag =>
                         ~ /\ ahit[k][i]
                           /\ \A j \in (0 .. E - 1) \ {i} :
                                  atime[k][j] < atime[k][i]]_vars

\* C4: the first access of an M line misses exactly when the tag is not
\* resident, and then evicts exactly when the set is full; the second
\* access of an M line is to the same address and always hits.
C4_ModifyMissThenHit ==
    [][/\ (pc = "replay" /\ pc' = "modify") =>
              IF TagResident(addr')
              THEN /\ hit_cnt' = hit_cnt + 1
                   /\ miss_cnt' = miss_cnt
                   /\ evict_cnt' = evict_cnt
              ELSE /\ hit_cnt' = hit_cnt
                   /\ miss_cnt' = miss_cnt + 1
                   /\ evict_cnt' =
                          evict_cnt + (IF SetFull(CurrSet(addr')) THEN 1 ELSE 0)
       /\ pc = "modify" =>
              /\ addr' = addr
              /\ hit_cnt' = hit_cnt + 1
              /\ miss_cnt' = miss_cnt
              /\ evict_cnt' = evict_cnt]_vars

\* Two M lines and nothing else were replayed: a cold miss then a hit, an
\* evicting miss then a hit.
C4_Witness ==
    /\ pc = "replay"
    /\ nrec = 2
    /\ nexp = 4
    /\ hit_cnt = 2
    /\ miss_cnt = 2
    /\ evict_cnt = 1

\* All accesses so far went to set k.
OnlySet(k) == \A m \in 0 .. S - 1 : m # k => seen[m] = {}

\* C5 as stated: accesses that map E + 1 or fewer distinct tags into one
\* initially empty set cause no eviction, and one miss per distinct tag.
C5_NoEvictionUpToEPlus1 ==
    (ValidGeom /\ Replaying) =>
        \A k \in 0 .. S - 1 :
            (OnlySet(k) /\ Cardinality(seen[k]) <= E + 1) =>
                /\ evict_cnt = 0
                /\ miss_cnt = Cardinality(seen[k])

\* C5 amended: accesses that map E or fewer distinct tags into one
\* initially empty set cause no eviction, and one miss per distinct tag.
C5_NoEvictionUpToE ==
    (ValidGeom /\ Replaying) =>
        \A k \in 0 .. S - 1 :
            (OnlySet(k) /\ Cardinality(seen[k]) <= E) =>
                /\ evict_cnt = 0
                /\ miss_cnt = Cardinality(seen[k])

\* E distinct tags went into set 0 alone, each of them more than once.
C5_Witness ==
    /\ ValidGeom
    /\ pc = "replay"
    /\ E = 2
    /\ OnlySet(0)
    /\ Cardinality(seen[0]) = E
    /\ miss_cnt = 2
    /\ hit_cnt = 2
    /\ evict_cnt = 0

\* C6: an access is a hit exactly when some line of its set is valid and
\* holds its tag; otherwise it is a miss, and the miss is an eviction exactly
\* when every line of the set is valid.
C6_ClassifiedBySetContent ==
    [][(Replaying /\ AccessStep) =>
          IF TagResident(addr')
          THEN <<hit_cnt', miss_cnt', evict_cnt'>> =
                   <<hit_cnt + 1, miss_cnt, evict_cnt>>
          ELSE IF SetFull(CurrSet(addr'))
          THEN <<hit_cnt', miss_cnt', evict_cnt'>> =
                   <<hit_cnt, miss_cnt + 1, evict_cnt + 1>>
          ELSE <<hit_cnt', miss_cnt', evict_cnt'>> =
                   <<hit_cnt, miss_cnt + 1, evict_cnt>>]_vars

\* Scenario A has run: s = 1, E = 1, b = 1 and three accesses to the two
\* tags 0 and 2 of set 0, the last one to address 0, every one a miss.
C6_Witness ==
    /\ s = 1 /\ E = 1 /\ b = 1
    /\ pc = "replay"
    /\ nacc = 3
    /\ addr = 0
    /\ seen[0] = {0, 2}
    /\ hit_cnt = 0
    /\ miss_cnt = 3
    /\ evict_cnt = 2

\* C7: replay makes one access per L line, one per S line and two per M
\* line, so between lines and at the end hit_cnt + miss_cnt = #L + #S + 2 #M.
C7_AccessesPerRecord ==
    /\ pc \in {"replay", "done"} =>
           /\ nacc = nexp
           /\ hit_cnt + miss_cnt = nexp
    /\ pc = "modify" => nacc = nexp - 1
    /\ pc = "done" => summary[1] + summary[2] = nexp

\* A trace of three lines, one of them an M line, was replayed to its end.
C7_Witness ==
    /\ pc = "done"
    /\ nrec = 3
    /\ nexp = 4
    /\ summary[1] + summary[2] = 4

\* C8: a line whose kind is not L, S or M makes no access and changes no
\* counter, not the recency clock and no cache line; a trace of such lines
\* alone ends with a summary of 0 hits, 0 misses, 0 evictions.
C8_IgnoredRecordNoEffect ==
    [][/\ (nrec' = nrec + 1 /\ nexp' = nexp) =>
              UNCHANGED <<hit_cnt, miss_cnt, evict_cnt, lru_count, cache,
                   nacc>>
       /\ (pc' = "done" /\ nexp = 0) => summary' = <<0, 0, 0>>]_vars

\* An ignored line was read after at least one access had filled a line.
C8_Witness ==
    /\ pc = "replay"
    /\ nrec > nexp
    /\ miss_cnt >= 1

\* C9: with s, E or b zero or negative the program stops with a
\* configuration error: no cache is built, no access made, nothing printed.
C9_NonPositiveFailsFast ==
    (s <= 0 \/ E <= 0 \/ b <= 0) =>
        /\ pc \notin {"open", "replay", "modify", "done"}
        /\ nacc = 0
        /\ summary = NoSummary

\* Every address below 2^(MaxAddrBit + 1).
AllAddrs == 0 .. Pow2(MaxAddrBit + 1) - 1

\* C10: for s >= 1 and b >= 1, access_data's tag is address >> (s + b), its
\* set index equals (address >> b) & (2^s - 1), and the index is in 0 .. S-1.
\* Stated for every address once init_cache has set S (s, b and S never
\* change afterwards), and for the address of the latest access.
C10_SetIndexIsMaskedField ==
    /\ (ValidGeom /\ pc = "open") =>
           \A a \in AllAddrs :
               /\ Tag(a) * Pow2(s + b) <= a
               /\ a < (Tag(a) + 1) * Pow2(s + b)
               /\ CurrSet(a) = BitAnd(Shr(a, b), Pow2(s) - 1)
               /\ 0 <= CurrSet(a)
               /\ CurrSet(a) < S
    /\ (ValidGeom /\ Replaying /\ nacc > 0) =>
           /\ last.tag = Shr(addr, s + b)
           /\ last.set = BitAnd(Shr(addr, b), Pow2(s) - 1)
           /\ last.set \in 0 .. S - 1
           /\ last.set \in DOMAIN cache

\* With four sets, an access went to set 2.
C10_Witness ==
    /\ s = 2 /\ b = 1
    /\ pc = "replay"
    /\ addr = 4
    /\ last.res = "miss"
    /\ last.set = 2

\* a with its block-offset bits (the low b bits) cleared.
BlockBase(a) == Shl(Shr(a, b), b)

\* C11: block-offset bits do not matter.  Two runs whose traces differ only
\* in the low b bits of the addresses make the same steps: for every
\* geometry the tag and the set index of an address are those of its
\* block's base address, and each access made takes the path and the line,
\* and stores the tag, that the access of the base address would.
C11_OffsetBitsIgnored ==
    [][/\ (ValidGeom /\ pc = "open") =>
              \A a1 \in AllAddrs :
                  /\ Tag(a1) = Tag(BlockBase(a1))
                  /\ CurrSet(a1) = CurrSet(BlockBase(a1))
       /\ (ValidGeom /\ Replaying /\ AccessStep) =>
              /\ last' = Outcome(BlockBase(addr'))
              /\ cache'[last'.set][last'.line].tag = Tag(BlockBase(addr'))]_vars

\* A line filled through address 0 was hit through address 1, which differs
\* from 0 in the block-offset bit only.
C11_Witness ==
    /\ ValidGeom
    /\ pc = "replay"
    /\ addr = 1
    /\ last.res = "hit"
    /\ seen[0] = {0}
    /\ miss_cnt = 1
    /\ hit_cnt = 1

\* C12: lru_count starts at 0 and grows by one on every access, hit, cold
\* fill or eviction alike: after n accesses it is n.
C12_ClockCountsAccesses ==
    [][AccessStep => lru_count' = lru_count + 1]_vars

\* C13: every access stamps its line with a value greater than every stamp
\* given before, so no two valid lines of a set carry the same lru value.
C13_StampsDistinct ==
    (ValidGeom /\ Replaying) =>
        \A k \in 0 .. S - 1 : \A i, j \in 0 .. E - 1 :
            (i # j /\ cache[k][i].valid # 0 /\ cache[k][j].valid # 0) =>
                cache[k][i].lru # cache[k][j].lru

\* C14: in every reachable state no two valid lines of a set hold the same tag.
C14_TagsUniqueInSet ==
    Replaying =>
        \A k \in 0 .. S - 1 : \A i, j \in 0 .. E - 1 :
            (i # j /\ cache[k][i].valid # 0 /\ cache[k][j].valid # 0) =>
                cache[k][i].tag # cache[k][j].tag

\* A set of two lines is full and a tag of it has been accessed again.
C14_Witness ==
    /\ pc = "replay"
    /\ E = 2
    /\ last.res = "hit"
    /\ last.line = 1
    /\ SetFull(last.set)

\* The line of the set with the smallest lru value, the lowest-indexed one
\* when several share it.
FirstMinLine(k) ==
    CHOOSE i \in 0 .. E - 1 :
        /\ \A j \in 0 .. E - 1 : cache[k][i].lru <= cache[k][j].lru
        /\ \A j \in 0 .. i - 1 : cache[k][j].lru > cache[k][i].lru

\* C15: an eviction writes the line with the smallest lru value of the
\* mapped set, the lowest-indexed one among equals; the line gets the new
\* tag and stays valid, and nothing else of the cache changes.
C15_VictimIsFirstMinimum ==
    [][(Replaying /\ evict_cnt' = evict_cnt + 1) =>
          LET k == CurrSet(addr')
              v == FirstMinLine(k)
          IN  /\ cache[k][v].valid # 0
              /\ cache' = [cache EXCEPT ![k][v] =
                               [valid |-> cache[k][v].valid,
                                tag |-> Tag(addr'),
                                lru |-> lru_count]]]_vars

\* An eviction from a set of two lines that carried the same lru value.
C15_Witness ==
    /\ pc = "replay"
    /\ E = 2
    /\ last.res = "evict"
    /\ last.line = 0
    /\ cache[last.set][0].lru = cache[last.set][1].lru
    /\ cache[last.set][0].valid # 0

\* C16: an access adds one to hit_cnt alone, or one to miss_cnt alone, or
\* one to miss_cnt and one to evict_cnt; nothing else changes the counters;
\* so after n accesses hit_cnt + miss_cnt = n and evict_cnt <= miss_cnt.
C16_OneCountPerAccess ==
    [][/\ AccessStep =>
              <<hit_cnt' - hit_cnt, miss_cnt' - miss_cnt, evict_cnt' - evict_cnt>>
                  \in {<<1, 0, 0>>, <<0, 1, 0>>, <<0, 1, 1>>}
       /\ ~AccessStep => UNCHANGED <<hit_cnt, miss_cnt, evict_cnt>>
       /\ hit_cnt' + miss_cnt' = nacc'
       /\ evict_cnt' <= miss_cnt']_vars

\* Three accesses, one of each kind: a cold miss, a hit and an eviction.
C16_Witness ==
    /\ pc = "replay"
    /\ nacc = 3
    /\ hit_cnt = 1
    /\ miss_cnt = 2
    /\ evict_cnt = 1

\* C17: while the cache exists no valid flag goes from set to clear; the
\* line an eviction overwrites stays valid.
C17_ValidNeverCleared ==
    [][(Replaying /\ Replaying') =>
          \A k \in 0 .. S - 1 : \A i \in 0 .. E - 1 :
              cache[k][i].valid # 0 => cache'[k][i].valid # 0]_vars

\* An eviction has just overwritten a line, and the line is valid.
C17_Witness ==
    /\ Replaying
    /\ last.res = "evict"
    /\ cache[last.set][last.line].valid # 0
    /\ cache[last.set][last.line].tag = Tag(addr)

\* The lines of the whole cache that are valid.
ValidLines ==
    {p \in (0 .. S - 1) \X (0 .. E - 1) : cache[p[1]][p[2]].valid # 0}

\* C18: in every reachable state miss_cnt - evict_cnt is the number of
\* valid lines of the whole cache, so it is at most S * E.
C18_MissesMinusEvictionsAreValidLines ==
    Replaying =>
        /\ miss_cnt - evict_cnt = Cardinality(ValidLines)
        /\ miss_cnt - evict_cnt <= S * E

\* A cache of four lines, two of them valid after two cold misses and an
\* eviction.
C18_Witness ==
    /\ Replaying
    /\ S = 2
    /\ E = 2
    /\ miss_cnt = 3
    /\ evict_cnt = 1
    /\ Cardinality(ValidLines) = 2

\* C19: one call of access_data changes at most one line, a line of the set
\* the address maps to; every other line keeps valid, tag and lru; a hit
\* changes no valid and no tag field at all.
C19_OneLineOfMappedSet ==
    [][(Replaying /\ AccessStep) =>
          /\ \E v \in 0 .. E - 1 :
                 \A k \in 0 .. S - 1 : \A j \in 0 .. E - 1 :
                     <<k, j>> # <<CurrSet(addr'), v>> => cache'[k][j] = cache[k][j]
          /\ hit_cnt' = hit_cnt + 1 =>
                 \A k \in 0 .. S - 1 : \A j \in 0 .. E - 1 :
                     /\ cache'[k][j].valid = cache[k][j].valid
                     /\ cache'[k][j].tag = cache[k][j].tag]_vars

\* A hit in a cache of two sets of two lines whose mapped set is full and
\* whose other set holds a valid line.
C19_Witness ==
    /\ Replaying
    /\ S = 2
    /\ E = 2
    /\ last.res = "hit"
    /\ SetFull(last.set)
    /\ cache[1 - last.set][0].valid # 0

\* C20: in every reachable state the valid lines of a set are its first
\* slots: every line before a valid line is valid.
C20_ValidLinesFormPrefix ==
    Replaying =>
        \A k \in 0 .. S - 1 : \A j \in 0 .. E - 1 : \A i \in 0 .. j - 1 :
            cache[k][j].valid # 0 => cache[k][i].valid # 0

\* A set of two lines with the first filled and the second still empty,
\* after a second access that hit.
C20_Witness ==
    /\ Replaying
    /\ E = 2
    /\ cache[0][0].valid # 0
    /\ cache[0][1].valid = 0
    /\ hit_cnt = 1

====
